---- MODULE Spec2Model ----
(***************************************************************************)
(* Box-breathing timer (src/app.js): the session state machine driven by   *)
(* the 1 Hz interval callback and the user's controls, the control         *)
(* fragment that render() builds, and the screen wake lock requested for   *)
(* a running session.                                                      *)
(*                                                                         *)
(* Strings the program computes with (the time limit text, the formatted   *)
(* time) are sequences of one-character strings, so that sanitising,       *)
(* parsing and formatting are computed and not assumed.                    *)
(***************************************************************************)
EXTENDS Integers, Sequences, FiniteSets, TLC

VARIABLES
    state,          \* the `state` object (app.js 12-28), the session fields
    interval,       \* TRUE while the timer the `interval` handle names is armed
    timers,         \* number of setInterval timers armed
    frames,         \* number of requestAnimationFrame callbacks pending
    animationFrameId, \* TRUE while the callback `animationFrameId` names is pending
    wakeLock,       \* the `wakeLock` handle: 0 is null, else a sentinel id
    held,           \* sentinels of screen wake locks the page currently holds
    requests,       \* navigator.wakeLock.request promises not yet settled
    wakeLockApi,    \* 'wakeLock' in navigator
    audioApi,       \* window.AudioContext || window.webkitAudioContext exists
    view,           \* the control fragment built by the last render()
    lastOp,         \* history: the last handler or interval callback that ran
    lastArg,        \* history: the input it was given, <<>> when it takes none
    prev,           \* history: `state` as that handler found it
    tone,           \* history: what its playTone() call did, "none" without one
    ticksRun,       \* history: interval callbacks run in the current session
    reachedAt       \* history: which of them set timeLimitReached, 0 if none

vars == <<state, interval, timers, frames, animationFrameId, wakeLock, held, requests,
          wakeLockApi, audioApi, view, lastOp, lastArg, prev, tone, ticksRun,
          reachedAt>>

histVars == <<lastOp, lastArg, prev, tone, ticksRun, reachedAt>>

timerVars == <<interval, timers>>

frameVars == <<frames, animationFrameId>>

envVars == <<wakeLockApi, audioApi>>

wakeVars == <<wakeLock, held, requests>>

----------------------------------------------------------------------------
(* Bounds of the model *)

\* ticks after which a session without time limit is no longer advanced (a
\* session with a time limit ends by itself)
MaxTicks == 30

\* sentinels that may exist at once (held, or still being requested)
MaxLocks == 2

\* largest number of seconds formatTime is applied to on its own
MaxSeconds == 5999

----------------------------------------------------------------------------
(* Program constants *)

SecondsPerMinute == 60

PhaseCount == 4

InitialPhaseTime == 4

PhaseTimeMin == 3

PhaseTimeMax == 6

\* the phase whose start ends a time-limited session
FinalPhase == 3

PresetMinutes == {2, 5, 10}

\* texts the time-limit input may hold when its input event fires
RawTimeLimits ==
    { <<>>, <<"0">>, <<"1">>, <<"-", "1">>, <<"0", ".", "1">> }

----------------------------------------------------------------------------
(* Strings *)

DigitChars == <<"0", "1", "2", "3", "4", "5", "6", "7", "8", "9">>

IsDigit(c) == \E i \in 1..10 : DigitChars[i] = c

DigitValue(c) == (CHOOSE i \in 1..10 : DigitChars[i] = c) - 1

\* value.replace(/[^0-9]/g, '')
SanitizeDigits(s) == SelectSeq(s, IsDigit)

\* length of the longest prefix of s made of digits
RECURSIVE DigitPrefixLen(_)
DigitPrefixLen(s) ==
    IF s = <<>> \/ ~IsDigit(Head(s)) THEN 0 ELSE 1 + DigitPrefixLen(Tail(s))

RECURSIVE DigitsValue(_, _)
DigitsValue(s, acc) ==
    IF s = <<>> THEN acc
    ELSE DigitsValue(Tail(s), 10 * acc + DigitValue(Head(s)))

\* parseInt(text) is NaN when the text starts with no digit
isNaNText(s) == DigitPrefixLen(s) = 0

\* parseInt(text) for a text without sign or leading blanks that starts with a
\* digit: the number its leading digits spell
parseInt(s) == DigitsValue(SubSeq(s, 1, DigitPrefixLen(s)), 0)

\* Number.prototype.toString() of an integer >= 0
RECURSIVE toString(_)
toString(n) ==
    IF n < 10 THEN <<DigitChars[n + 1]>>
    ELSE toString(n \div 10) \o <<DigitChars[(n % 10) + 1]>>

\* s.padStart(2, '0')
padStart2(s) ==
    IF Len(s) >= 2 THEN s
    ELSE IF Len(s) = 1 THEN <<"0">> \o s
    ELSE <<"0", "0">>

\* formatTime without the padding of the seconds
formatTime_unpaddedSeconds(seconds) ==
    LET mins == seconds \div SecondsPerMinute
        secs == seconds % SecondsPerMinute
    IN  padStart2(toString(mins)) \o <<":">> \o toString(secs)

formatTime(seconds) ==
    LET mins == seconds \div SecondsPerMinute
        secs == seconds % SecondsPerMinute
    IN  padStart2(toString(mins)) \o <<":">> \o padStart2(toString(secs))

getInstruction(count) ==
    CASE count = 0 -> "Inhale"
      [] count = 1 -> "Hold"
      [] count = 2 -> "Exhale"
      [] count = 3 -> "Wait"
      [] OTHER -> ""

\* a JavaScript string used as a condition: the empty string is false
Truthy(s) == s # <<>>

----------------------------------------------------------------------------
(* The state object and the control fragment *)

InitialState ==
    [ isPlaying        |-> FALSE,
      count            |-> 0,
      countdown        |-> 4,
      totalTime        |-> 0,
      soundEnabled     |-> FALSE,
      timeLimit        |-> <<>>,
      sessionComplete  |-> FALSE,
      timeLimitReached |-> FALSE,
      phaseTime        |-> InitialPhaseTime,
      pulseStartTime   |-> "null",
      hasStarted       |-> FALSE ]

\* render with the settings and the slider left in place while playing
render_settingsWhilePlaying(s) ==
    LET idle == ~s.isPlaying /\ ~s.sessionComplete
    IN  [ timer       |-> IF s.isPlaying THEN formatTime(s.totalTime) ELSE <<>>,
          instruction |-> IF s.isPlaying THEN getInstruction(s.count) ELSE "",
          warning     |-> IF s.timeLimitReached /\ ~s.sessionComplete
                          THEN (IF s.isPlaying THEN "Finishing current cycle"
                                ELSE "Time limit reached")
                          ELSE "",
          settings    |-> ~s.sessionComplete,
          soundOn     |-> idle /\ s.soundEnabled,
          complete    |-> s.sessionComplete,
          toggle      |-> IF s.sessionComplete THEN "none"
                          ELSE IF s.isPlaying THEN "Pause" ELSE "Start",
          slider      |-> ~s.sessionComplete,
          reset       |-> s.sessionComplete,
          presets     |-> idle ]

\* render with the reset button shown whenever the session is not playing
render_resetWhenStopped(s) ==
    LET idle == ~s.isPlaying /\ ~s.sessionComplete
    IN  [ timer       |-> IF s.isPlaying THEN formatTime(s.totalTime) ELSE <<>>,
          instruction |-> IF s.isPlaying THEN getInstruction(s.count) ELSE "",
          warning     |-> IF s.timeLimitReached /\ ~s.sessionComplete
                          THEN (IF s.isPlaying THEN "Finishing current cycle"
                                ELSE "Time limit reached")
                          ELSE "",
          settings    |-> idle,
          soundOn     |-> idle /\ s.soundEnabled,
          complete    |-> s.sessionComplete,
          toggle      |-> IF s.sessionComplete THEN "none"
                          ELSE IF s.isPlaying THEN "Pause" ELSE "Start",
          slider      |-> idle,
          reset       |-> ~s.isPlaying,
          presets     |-> idle ]

\* render with the toggle button built in Complete too
render_toggleWhenComplete(s) ==
    LET idle == ~s.isPlaying /\ ~s.sessionComplete
    IN  [ timer       |-> IF s.isPlaying THEN formatTime(s.totalTime) ELSE <<>>,
          instruction |-> IF s.isPlaying THEN getInstruction(s.count) ELSE "",
          warning     |-> IF s.timeLimitReached /\ ~s.sessionComplete
                          THEN (IF s.isPlaying THEN "Finishing current cycle"
                                ELSE "Time limit reached")
                          ELSE "",
          settings    |-> idle,
          soundOn     |-> idle /\ s.soundEnabled,
          complete    |-> s.sessionComplete,
          toggle      |-> IF s.isPlaying THEN "Pause" ELSE "Start",
          slider      |-> idle,
          reset       |-> s.sessionComplete,
          presets     |-> idle ]

\* what render() puts into app.innerHTML and which listeners it attaches
render(s) ==
    LET idle == ~s.isPlaying /\ ~s.sessionComplete
    IN  [ timer       |-> IF s.isPlaying THEN formatTime(s.totalTime) ELSE <<>>,
          instruction |-> IF s.isPlaying THEN getInstruction(s.count) ELSE "",
          warning     |-> IF s.timeLimitReached /\ ~s.sessionComplete
                          THEN (IF s.isPlaying THEN "Finishing current cycle"
                                ELSE "Time limit reached")
                          ELSE "",
          settings    |-> idle,
          soundOn     |-> idle /\ s.soundEnabled,
          complete    |-> s.sessionComplete,
          toggle      |-> IF s.sessionComplete THEN "none"
                          ELSE IF s.isPlaying THEN "Pause" ELSE "Start",
          slider      |-> idle,
          reset       |-> s.sessionComplete,
          presets     |-> idle ]

\* the page when the DOMContentLoaded handler threw at
\* `new (window.AudioContext || window.webkitAudioContext)()`, which comes
\* before every addEventListener and before the first render(): the control
\* fragment is empty and no listener is attached
blankView ==
    [ timer       |-> <<>>,
      instruction |-> "",
      warning     |-> "",
      settings    |-> FALSE,
      soundOn     |-> FALSE,
      complete    |-> FALSE,
      toggle      |-> "none",
      slider      |-> FALSE,
      reset       |-> FALSE,
      presets     |-> FALSE ]

----------------------------------------------------------------------------
(* Wake lock *)

FreeSentinel == CHOOSE i \in 1..MaxLocks : i \notin held

\* room for one more request: every pending request can still get a sentinel
CanRequest == ~wakeLockApi \/ requests + Cardinality(held) < MaxLocks

\* requestWakeLock() up to its await
requestWakeLock ==
    /\ requests' = IF wakeLockApi THEN requests + 1 ELSE requests
    /\ UNCHANGED <<wakeLock, held>>

\* releaseWakeLock(): release() releases the lock at once and returns a promise
\* that is already resolved, so its reaction (wakeLock = null) runs at the
\* microtask checkpoint that ends the calling task, before any other callback
releaseWakeLock ==
    /\ held' = IF wakeLock # 0 THEN held \ {wakeLock} ELSE held
    /\ wakeLock' = 0
    /\ UNCHANGED requests

----------------------------------------------------------------------------
Init ==
    /\ state = InitialState
    /\ interval = FALSE
    /\ timers = 0
    /\ frames = 0
    /\ animationFrameId = FALSE
    /\ wakeLock = 0
    /\ held = {}
    /\ requests = 0
    /\ wakeLockApi \in BOOLEAN
    /\ audioApi \in BOOLEAN
    /\ view = IF audioApi THEN render(InitialState) ELSE blankView
    /\ lastOp = "load"
    /\ lastArg = <<>>
    /\ prev = InitialState
    /\ tone = "none"
    /\ ticksRun = 0
    /\ reachedAt = 0

----------------------------------------------------------------------------
(* State changes of the handlers, as functions of the state they find *)

\* startSession with the countdown left as the last session or the slider
\* left it
startSession_staleCountdown(s) ==
    [s EXCEPT !.isPlaying = TRUE,
              !.hasStarted = TRUE,
              !.totalTime = 0,
              !.count = 0,
              !.sessionComplete = FALSE,
              !.timeLimitReached = FALSE,
              !.pulseStartTime = "time"]

\* togglePlay(), the branch taken when the toggle turns isPlaying on
startSession(s) ==
    [s EXCEPT !.isPlaying = TRUE,
              !.hasStarted = TRUE,
              !.totalTime = 0,
              !.countdown = s.phaseTime,
              !.count = 0,
              !.sessionComplete = FALSE,
              !.timeLimitReached = FALSE,
              !.pulseStartTime = "time"]

\* stopSession as a pause that keeps the phase reached
stopSession_keepsPhase(s) ==
    [s EXCEPT !.isPlaying = FALSE,
              !.totalTime = 0,
              !.sessionComplete = FALSE,
              !.timeLimitReached = FALSE,
              !.hasStarted = FALSE,
              !.pulseStartTime = "null"]

\* stopSession as a pause that keeps the elapsed time
stopSession_keepsElapsed(s) ==
    [s EXCEPT !.isPlaying = FALSE,
              !.countdown = s.phaseTime,
              !.count = 0,
              !.sessionComplete = FALSE,
              !.timeLimitReached = FALSE,
              !.hasStarted = FALSE,
              !.pulseStartTime = "null"]

\* togglePlay(), the branch taken when the toggle turns isPlaying off
stopSession(s) ==
    [s EXCEPT !.isPlaying = FALSE,
              !.totalTime = 0,
              !.countdown = s.phaseTime,
              !.count = 0,
              !.sessionComplete = FALSE,
              !.timeLimitReached = FALSE,
              !.hasStarted = FALSE,
              !.pulseStartTime = "null"]

\* resetState without clearing the time limit
resetState_keepsLimit(s) ==
    [s EXCEPT !.isPlaying = FALSE,
              !.totalTime = 0,
              !.countdown = s.phaseTime,
              !.count = 0,
              !.sessionComplete = FALSE,
              !.timeLimitReached = FALSE,
              !.pulseStartTime = "null",
              !.hasStarted = FALSE]

\* resetToStart()
resetState(s) ==
    [s EXCEPT !.isPlaying = FALSE,
              !.totalTime = 0,
              !.countdown = s.phaseTime,
              !.count = 0,
              !.sessionComplete = FALSE,
              !.timeLimit = <<>>,
              !.timeLimitReached = FALSE,
              !.pulseStartTime = "null",
              !.hasStarted = FALSE]

\* startWithPreset(minutes)
presetSession(s, minutes) ==
    [s EXCEPT !.timeLimit = toString(minutes),
              !.isPlaying = TRUE,
              !.totalTime = 0,
              !.countdown = s.phaseTime,
              !.count = 0,
              !.sessionComplete = FALSE,
              !.timeLimitReached = FALSE,
              !.pulseStartTime = "time",
              !.hasStarted = TRUE]

\* limitReached with the limit text converted by Number(), for which the
\* empty text is 0, and no test of the text
limitReached_emptyIsZero(s) ==
    IF ~s.timeLimitReached
    THEN s.totalTime >= (IF isNaNText(s.timeLimit) THEN 0
                         ELSE parseInt(s.timeLimit)) * SecondsPerMinute
    ELSE s.timeLimitReached

\* limitReached with > for >=
limitReached_strict(s) ==
    IF Truthy(s.timeLimit) /\ ~s.timeLimitReached
    THEN /\ ~isNaNText(s.timeLimit)
         /\ s.totalTime > parseInt(s.timeLimit) * SecondsPerMinute
    ELSE s.timeLimitReached

\* the interval callback: the limit check made once totalTime is counted up
\* (a comparison with NaN is false)
limitReached(s) ==
    IF Truthy(s.timeLimit) /\ ~s.timeLimitReached
    THEN /\ ~isNaNText(s.timeLimit)
         /\ s.totalTime >= parseInt(s.timeLimit) * SecondsPerMinute
    ELSE s.timeLimitReached

\* sessionEnds with the phase compared to the number of phases
sessionEnds_phaseOutOfRange(s) == s.count = PhaseCount /\ s.timeLimitReached

\* the interval callback: the condition under which the session is ended,
\* read after the phase has been advanced
sessionEnds(s) == s.count = FinalPhase /\ s.timeLimitReached

\* advancePhase that ends the session without clearing isPlaying
advancePhase_keepsPlaying(s) ==
    LET t == [s EXCEPT !.count = (s.count + 1) % PhaseCount,
                       !.pulseStartTime = "time",
                       !.countdown = s.phaseTime]
    IN  IF sessionEnds(t)
        THEN [t EXCEPT !.sessionComplete = TRUE,
                       !.hasStarted = FALSE]
        ELSE t

\* advancePhase that counts the phase up without wrapping
advancePhase_noWrap(s) ==
    LET t == [s EXCEPT !.count = s.count + 1,
                       !.pulseStartTime = "time",
                       !.countdown = s.phaseTime]
    IN  IF sessionEnds(t)
        THEN [t EXCEPT !.sessionComplete = TRUE,
                       !.isPlaying = FALSE,
                       !.hasStarted = FALSE]
        ELSE t

\* advancePhase that restarts the countdown at the initial phase time
advancePhase_initialCountdown(s) ==
    LET t == [s EXCEPT !.count = (s.count + 1) % PhaseCount,
                       !.pulseStartTime = "time",
                       !.countdown = InitialPhaseTime]
    IN  IF sessionEnds(t)
        THEN [t EXCEPT !.sessionComplete = TRUE,
                       !.isPlaying = FALSE,
                       !.hasStarted = FALSE]
        ELSE t

\* the interval callback: the branch taken when countdown is 1
advancePhase(s) ==
    LET t == [s EXCEPT !.count = (s.count + 1) % PhaseCount,
                       !.pulseStartTime = "time",
                       !.countdown = s.phaseTime]
    IN  IF sessionEnds(t)
        THEN [t EXCEPT !.sessionComplete = TRUE,
                       !.isPlaying = FALSE,
                       !.hasStarted = FALSE]
        ELSE t

\* tick with the phase advanced when the countdown is found at 0
tick_lateAdvance(s) ==
    LET a == [s EXCEPT !.totalTime = s.totalTime + 1]
        b == [a EXCEPT !.timeLimitReached = limitReached(a)]
    IN  IF b.countdown = 0
        THEN advancePhase(b)
        ELSE [b EXCEPT !.countdown = b.countdown - 1]

\* tick that counts the second only in the branch that decrements
tick_skipsCountOnAdvance(s) ==
    LET b == [s EXCEPT !.timeLimitReached = limitReached(s)]
    IN  IF b.countdown = 1
        THEN advancePhase(b)
        ELSE [b EXCEPT !.countdown = b.countdown - 1,
                       !.totalTime = b.totalTime + 1]

\* tick that ends the session as soon as the limit is reached, outside the
\* branch that advances the phase
tick_endsWhenLimitReached(s) ==
    LET a == [s EXCEPT !.totalTime = s.totalTime + 1]
        b == [a EXCEPT !.timeLimitReached = limitReached(a)]
        c == IF b.countdown = 1
             THEN [b EXCEPT !.count = (b.count + 1) % PhaseCount,
                            !.pulseStartTime = "time",
                            !.countdown = b.phaseTime]
             ELSE [b EXCEPT !.countdown = b.countdown - 1]
    IN  IF c.timeLimitReached
        THEN [c EXCEPT !.sessionComplete = TRUE,
                       !.isPlaying = FALSE,
                       !.hasStarted = FALSE]
        ELSE c

\* tick that takes two seconds off the countdown
tick_decrementsByTwo(s) ==
    LET a == [s EXCEPT !.totalTime = s.totalTime + 1]
        b == [a EXCEPT !.timeLimitReached = limitReached(a)]
    IN  IF b.countdown = 1
        THEN advancePhase(b)
        ELSE [b EXCEPT !.countdown = b.countdown - 2]

\* the interval callback, its changes of `state`
tick(s) ==
    LET a == [s EXCEPT !.totalTime = s.totalTime + 1]
        b == [a EXCEPT !.timeLimitReached = limitReached(a)]
    IN  IF b.countdown = 1
        THEN advancePhase(b)
        ELSE [b EXCEPT !.countdown = b.countdown - 1]

\* the interval callback reaches the branch that ends the session, where it
\* clears the interval, cancels the frame and releases the wake lock
tickEndsSession(s) ==
    LET a == [s EXCEPT !.totalTime = s.totalTime + 1]
        b == [a EXCEPT !.timeLimitReached = limitReached(a)]
    IN  /\ b.countdown = 1
        /\ sessionEnds([b EXCEPT !.count = (b.count + 1) % PhaseCount])

\* the interval callback finds countdown at 1 and advances the phase
tickAdvances(s) == s.countdown = 1

\* cancelAnimationFrame that cancels nothing
cancelAnimationFrame_noop == UNCHANGED frameVars

\* cancelAnimationFrame(animationFrameId): cancels the callback the handle
\* names, if it is still pending
cancelAnimationFrame ==
    /\ frames' = IF animationFrameId THEN frames - 1 ELSE frames
    /\ animationFrameId' = FALSE

\* animate() called by a handler that has set isPlaying: it draws and requests
\* the next frame
animate ==
    /\ frames' = frames + 1
    /\ animationFrameId' = TRUE

\* clearInterval that leaves the timer armed
clearInterval_forgets ==
    /\ interval' = FALSE
    /\ timers' = timers

\* clearInterval(interval): disarms the timer the handle names, if it is armed
clearInterval ==
    /\ interval' = FALSE
    /\ timers' = IF interval THEN timers - 1 ELSE timers

\* startInterval(): clearInterval(interval), then interval = setInterval(...)
startInterval ==
    /\ interval' = TRUE
    /\ timers' = (IF interval THEN timers - 1 ELSE timers) + 1

\* playTone without the test of soundEnabled
playTone_ignoresSetting(s) == {"played", "failed"}

\* playTone() in state s: nothing unless sound is enabled (audioContext is an
\* object whenever a handler runs); else the tone is scheduled ("played"), or
\* a Web Audio call throws and the catch logs it ("failed")
playTone(s) == IF s.soundEnabled THEN {"played", "failed"} ELSE {"none"}

\* toggleSound that switches the sound on
toggleSound_switchesOn(s) == [s EXCEPT !.soundEnabled = TRUE]

\* toggleSound(), its change of `state`
toggleSound(s) == [s EXCEPT !.soundEnabled = ~s.soundEnabled]

\* the fragment after an interval callback that calls render() only in the
\* branch that advances the phase, before it ends the session
viewAfterTick_renderOnAdvance(s, v) ==
    IF tickAdvances(s)
    THEN render([tick(s) EXCEPT !.sessionComplete = s.sessionComplete,
                                !.isPlaying = s.isPlaying,
                                !.hasStarted = s.hasStarted])
    ELSE v

\* the fragment after the interval callback that found state s and fragment v:
\* render() is its last statement, in every branch
viewAfterTick(s, v) == render(tick(s))

----------------------------------------------------------------------------
(* Handlers *)

\* click on #toggle-play while not playing
Start ==
    /\ view.toggle # "none"
    /\ ~state.isPlaying
    /\ CanRequest
    /\ state' = startSession(state)
    /\ tone' \in playTone(state')
    /\ startInterval
    /\ animate
    /\ requestWakeLock
    /\ view' = render(state')
    /\ lastOp' = "start"
    /\ lastArg' = <<>>
    /\ prev' = state
    /\ ticksRun' = 0
    /\ reachedAt' = 0
    /\ UNCHANGED envVars

\* click on #toggle-play while playing
Pause ==
    /\ view.toggle # "none"
    /\ state.isPlaying
    /\ state' = stopSession(state)
    /\ clearInterval
    /\ cancelAnimationFrame
    /\ releaseWakeLock
    /\ view' = render(state')
    /\ lastOp' = "pause"
    /\ lastArg' = <<>>
    /\ prev' = state
    /\ tone' = "none"
    /\ ticksRun' = 0
    /\ reachedAt' = 0
    /\ UNCHANGED envVars

\* click on #reset
ResetToStart ==
    /\ view.reset
    /\ state' = resetState(state)
    /\ clearInterval
    /\ cancelAnimationFrame
    /\ releaseWakeLock
    /\ view' = render(state')
    /\ lastOp' = "reset"
    /\ lastArg' = <<>>
    /\ prev' = state
    /\ tone' = "none"
    /\ ticksRun' = 0
    /\ reachedAt' = 0
    /\ UNCHANGED envVars

\* change of #sound-toggle
ToggleSound ==
    /\ view.settings
    /\ state' = toggleSound(state)
    /\ view' = render(state')
    /\ lastOp' = "sound"
    /\ lastArg' = <<>>
    /\ prev' = state
    /\ tone' = "none"
    /\ UNCHANGED <<timerVars, frameVars, wakeVars, envVars, ticksRun, reachedAt>>

\* input event of #time-limit
HandleTimeLimitChange ==
    /\ view.settings
    /\ \E raw \in RawTimeLimits :
          /\ state' = [state EXCEPT !.timeLimit = SanitizeDigits(raw)]
          /\ lastArg' = raw
    /\ lastOp' = "limit"
    /\ prev' = state
    /\ tone' = "none"
    /\ UNCHANGED <<timerVars, frameVars, wakeVars, envVars, view, ticksRun, reachedAt>>

\* input event of #phase-time-slider, a range input from 3 to 6
PhaseTimeInput ==
    /\ view.slider
    /\ \E v \in PhaseTimeMin..PhaseTimeMax :
          /\ state' = [state EXCEPT !.phaseTime = parseInt(toString(v))]
          /\ lastArg' = <<v>>
    /\ lastOp' = "slider"
    /\ prev' = state
    /\ tone' = "none"
    /\ UNCHANGED <<timerVars, frameVars, wakeVars, envVars, view, ticksRun, reachedAt>>

\* click on a preset button
StartWithPreset ==
    /\ view.presets
    /\ CanRequest
    /\ \E m \in PresetMinutes :
          /\ state' = presetSession(state, m)
          /\ lastArg' = <<m>>
    /\ tone' \in playTone(state')
    /\ startInterval
    /\ animate
    /\ requestWakeLock
    /\ view' = render(state')
    /\ lastOp' = "preset"
    /\ prev' = state
    /\ ticksRun' = 0
    /\ reachedAt' = 0
    /\ UNCHANGED envVars

\* a setInterval callback of startInterval
Tick ==
    /\ timers > 0
    /\ Truthy(state.timeLimit) \/ state.totalTime < MaxTicks
    /\ state' = tick(state)
    /\ tone' \in IF tickAdvances(state) THEN playTone(state') ELSE {"none"}
    /\ IF tickEndsSession(state)
       THEN /\ clearInterval
            /\ cancelAnimationFrame
            /\ releaseWakeLock
       ELSE UNCHANGED <<timerVars, frameVars, wakeVars>>
    /\ view' = viewAfterTick(state, view)
    /\ lastOp' = "tick"
    /\ lastArg' = <<>>
    /\ prev' = state
    /\ ticksRun' = ticksRun + 1
    /\ reachedAt' = IF state'.timeLimitReached /\ ~state.timeLimitReached
                    THEN ticksRun + 1 ELSE reachedAt
    /\ UNCHANGED envVars

\* a requestAnimationFrame callback: animate()
AnimationFrame ==
    /\ \E named \in BOOLEAN :
          \* the callback that runs is the one the handle names, or another
          /\ IF named THEN animationFrameId
             ELSE frames > (IF animationFrameId THEN 1 ELSE 0)
          /\ IF state.isPlaying
             THEN /\ frames' = frames
                  /\ animationFrameId' = TRUE
             ELSE /\ frames' = frames - 1
                  /\ animationFrameId' = (animationFrameId /\ ~named)
    /\ UNCHANGED <<state, timerVars, wakeVars, envVars, view, histVars>>

\* the promise of navigator.wakeLock.request('screen') is fulfilled and
\* requestWakeLock() resumes after its await
RequestResolved ==
    /\ requests > 0
    /\ requests' = requests - 1
    /\ held' = held \cup {FreeSentinel}
    /\ wakeLock' = FreeSentinel
    /\ UNCHANGED <<state, timerVars, frameVars, envVars, view, histVars>>

\* the promise is rejected and requestWakeLock() logs the error
RequestRejected ==
    /\ requests > 0
    /\ requests' = requests - 1
    /\ UNCHANGED <<state, timerVars, frameVars, wakeLock, held, envVars,
                   view, histVars>>

Next ==
    \/ Start
    \/ Pause
    \/ ResetToStart
    \/ ToggleSound
    \/ HandleTimeLimitChange
    \/ PhaseTimeInput
    \/ StartWithPreset
    \/ Tick
    \/ AnimationFrame
    \/ RequestResolved
    \/ RequestRejected

Spec == Init /\ [][Next]_vars

----------------------------------------------------------------------------
(* Sessions that the user does not stop, in an environment without the      *)
(* Wake Lock API (no request is ever made, so no promise callback runs):    *)
(* the timer of setInterval fires its callback every second while armed     *)

UnstoppedInit == Init /\ ~wakeLockApi

UnstoppedNext ==
    \/ Start
    \/ ResetToStart
    \/ ToggleSound
    \/ HandleTimeLimitChange
    \/ PhaseTimeInput
    \/ StartWithPreset
    \/ Tick
    \/ AnimationFrame

UnstoppedFairSpec == UnstoppedInit /\ [][UnstoppedNext]_vars /\ WF_vars(Tick)

----------------------------------------------------------------------------
(* formatTime on its own: applied once to each number of seconds in         *)
(* 0..MaxSeconds, its result put where render() puts it                     *)

FormatInit ==
    /\ state = InitialState
    /\ interval = FALSE
    /\ timers = 0
    /\ frames = 0
    /\ animationFrameId = FALSE
    /\ wakeLock = 0
    /\ held = {}
    /\ requests = 0
    /\ wakeLockApi = FALSE
    /\ audioApi = TRUE
    /\ view = render(InitialState)
    /\ lastOp = "formatTime"
    /\ lastArg \in { <<s>> : s \in 0..MaxSeconds }
    /\ prev = InitialState
    /\ tone = "none"
    /\ ticksRun = 0
    /\ reachedAt = 0

FormatTime ==
    /\ lastOp = "formatTime"
    /\ view' = [view EXCEPT !.timer = formatTime(lastArg[1])]
    /\ lastOp' = "formatted"
    /\ UNCHANGED <<state, timerVars, frameVars, wakeVars, envVars, lastArg, prev,
                   tone, ticksRun, reachedAt>>

FormatNext == FormatTime

FormatSpec == FormatInit /\ [][FormatNext]_vars

----------------------------------------------------------------------------
(* The variant src/unnamed/part_000: the same handlers, but no animation    *)
(* frame is requested for a running session, and the interval callback      *)
(* calls render() only in the branch that advances the phase, before the    *)
(* test that ends the session                                               *)

\* `state` at the render() call of the variant's interval callback that found
\* state s with countdown 1: the phase is advanced, the session not yet ended
part000_stateAtRender(s) ==
    LET a == [s EXCEPT !.totalTime = s.totalTime + 1]
        b == [a EXCEPT !.timeLimitReached = limitReached(a)]
    IN  [b EXCEPT !.count = (b.count + 1) % PhaseCount,
                  !.pulseStartTime = "time",
                  !.countdown = b.phaseTime]

\* the fragment after the variant's interval callback that found state s and
\* fragment v
part000_viewAfterTick(s, v) ==
    IF tickAdvances(s) THEN render(part000_stateAtRender(s)) ELSE v

\* click on #toggle-play while not playing
part000_Start ==
    /\ view.toggle # "none"
    /\ ~state.isPlaying
    /\ CanRequest
    /\ state' = startSession(state)
    /\ tone' \in playTone(state')
    /\ startInterval
    /\ requestWakeLock
    /\ view' = render(state')
    /\ lastOp' = "start"
    /\ lastArg' = <<>>
    /\ prev' = state
    /\ ticksRun' = 0
    /\ reachedAt' = 0
    /\ UNCHANGED <<frameVars, envVars>>

\* click on a preset button
part000_StartWithPreset ==
    /\ view.presets
    /\ CanRequest
    /\ \E m \in PresetMinutes :
          /\ state' = presetSession(state, m)
          /\ lastArg' = <<m>>
    /\ tone' \in playTone(state')
    /\ startInterval
    /\ requestWakeLock
    /\ view' = render(state')
    /\ lastOp' = "preset"
    /\ prev' = state
    /\ ticksRun' = 0
    /\ reachedAt' = 0
    /\ UNCHANGED <<frameVars, envVars>>

\* a setInterval callback of the variant's startInterval
part000_Tick ==
    /\ timers > 0
    /\ Truthy(state.timeLimit) \/ state.totalTime < MaxTicks
    /\ state' = tick(state)
    /\ tone' \in IF tickAdvances(state) THEN playTone(state') ELSE {"none"}
    /\ IF tickEndsSession(state)
       THEN /\ clearInterval
            /\ releaseWakeLock
       ELSE UNCHANGED <<timerVars, wakeVars>>
    /\ view' = part000_viewAfterTick(state, view)
    /\ lastOp' = "tick"
    /\ lastArg' = <<>>
    /\ prev' = state
    /\ ticksRun' = ticksRun + 1
    /\ reachedAt' = IF state'.timeLimitReached /\ ~state.timeLimitReached
                    THEN ticksRun + 1 ELSE reachedAt
    /\ UNCHANGED <<frameVars, envVars>>

\* resetToStart is attached to #reset, which render() builds only when it
\* finds sessionComplete true: in the variant no render() call does, since
\* the only handler that leaves sessionComplete true calls it before
part000_Next ==
    \/ part000_Start
    \/ Pause
    \/ ToggleSound
    \/ HandleTimeLimitChange
    \/ PhaseTimeInput
    \/ part000_StartWithPreset
    \/ part000_Tick
    \/ RequestResolved
    \/ RequestRejected

part000_Spec == Init /\ [][part000_Next]_vars

----------------------------------------------------------------------------
(* Properties *)

Running == state.isPlaying
Complete == state.sessionComplete
Idle == ~state.isPlaying /\ ~state.sessionComplete

\* the last step was an interval callback that ended the session
TickCompleted == lastOp = "tick" /\ state.sessionComplete /\ ~prev.sessionComplete

\* the time limit in minutes, for a limit text that spells a number
LimitMinutes(s) == parseInt(s.timeLimit)

HasLimit(s) == Truthy(s.timeLimit) /\ ~isNaNText(s.timeLimit)

\* C1: a tick completes the session only when it moves the phase from 3 (Wait)
\* to 0 with timeLimitReached true, so that the elapsed time at completion is
\* a whole number of four-phase cycles.
C1_CompletesOnlyAfterWaitPhase ==
    TickCompleted =>
        /\ ~state.isPlaying
        /\ prev.count = 3
        /\ state.count = 0
        /\ state.timeLimitReached
        /\ state.totalTime % (PhaseCount * state.phaseTime) = 0

\* C2: with a time limit of 0 minutes, or none, timeLimitReached never becomes
\* true and the session never completes by itself.
C2_ZeroLimitIsUnlimited ==
    (~Truthy(state.timeLimit) \/ (HasLimit(state) /\ LimitMinutes(state) = 0))
        => ~state.timeLimitReached /\ ~state.sessionComplete

\* C3: once every wake lock request has settled, no wake lock is held while
\* the session is not running.
C3_NoLockHeldOutsideRunning ==
    (requests = 0 /\ ~state.isPlaying) => held = {}

\* C4: totalTime counts the ticks of a session, and a phase starts at the
\* session's start and at every change of phase.  With d the phase duration,
\* the d-th tick after a phase start advances the phase by exactly 1 mod 4 and
\* sets the countdown to d again; none of the d-1 ticks before it changes the
\* phase.
C4_PhaseAdvancesEveryDTicks ==
    /\ lastOp \in {"start", "preset"} =>
          state.totalTime = 0 /\ state.countdown = state.phaseTime
    /\ (lastOp = "tick" /\ prev.isPlaying) =>
          LET d == prev.phaseTime
          IN  /\ state.totalTime = prev.totalTime + 1
              /\ state.phaseTime = d
              /\ d \in 3..8
              /\ IF state.totalTime % d = 0
                 THEN /\ state.count = (prev.count + 1) % 4
                      /\ state.countdown = d
                 ELSE /\ state.count = prev.count
                      /\ state.countdown = d - (state.totalTime % d)

C4_Witness ==
    /\ lastOp = "tick"
    /\ state.isPlaying
    /\ state.phaseTime = 6
    /\ state.totalTime = 12
    /\ state.count = 2
    /\ state.countdown = 6

\* C5: in a session started with an empty time limit, timeLimitReached and
\* sessionComplete stay false and every tick leaves the session running; over
\* the first 4*phaseTime ticks the phases 0, 1, 2, 3 are visited in this order,
\* each for phaseTime ticks, and the phase is 0 again after 4*phaseTime ticks.
C5_UnlimitedSessionCycles ==
    ~Truthy(state.timeLimit) =>
        /\ ~state.timeLimitReached
        /\ ~state.sessionComplete
        /\ (lastOp = "tick" =>
              /\ state.isPlaying
              /\ interval
              /\ (state.totalTime < 4 * state.phaseTime =>
                    state.count = state.totalTime \div state.phaseTime)
              /\ (state.totalTime = 4 * state.phaseTime => state.count = 0))

C5_Witness ==
    /\ lastOp = "tick"
    /\ ~Truthy(state.timeLimit)
    /\ state.phaseTime = 4
    /\ state.totalTime = 16
    /\ state.count = 0
    /\ state.isPlaying

\* C6: with a time limit of L >= 1 minutes, after every tick timeLimitReached
\* is true exactly if totalTime >= 60*L (false before, set on the tick that
\* reaches 60*L, kept on later ticks and in Complete); pause, reset and a new
\* start clear it.
C6_LimitReachedLatch ==
    /\ (lastOp = "tick" /\ HasLimit(state) /\ LimitMinutes(state) >= 1) =>
          (state.timeLimitReached <=>
              state.totalTime >= 60 * LimitMinutes(state))
    /\ lastOp \in {"pause", "reset", "start", "preset"} =>
          ~state.timeLimitReached

C6_Witness ==
    /\ lastOp = "tick"
    /\ HasLimit(state)
    /\ LimitMinutes(state) >= 1
    /\ state.totalTime > 60 * LimitMinutes(state)
    /\ prev.timeLimitReached
    /\ state.timeLimitReached
    /\ state.isPlaying

\* the state as created at page load, with the sound setting of s
FreshStateWithSoundOf(s) ==
    [InitialState EXCEPT !.soundEnabled = s.soundEnabled]

\* C7 as stated: resetToStart() in Complete yields the page-load state in
\* every field except soundEnabled.
C7_ResetYieldsInitialState ==
    (lastOp = "reset" /\ prev.sessionComplete) =>
        state = FreshStateWithSoundOf(state)

\* C7, amended: resetToStart() in Complete yields the page-load state in every
\* field except soundEnabled and phaseTime, which are kept, and countdown,
\* which is set to the kept phaseTime.
C7_ResetYieldsInitialStateButPhaseTime ==
    (lastOp = "reset" /\ prev.sessionComplete) =>
        /\ state = [FreshStateWithSoundOf(state) EXCEPT
                        !.phaseTime = prev.phaseTime,
                        !.countdown = prev.phaseTime]
        /\ state.soundEnabled = prev.soundEnabled

C7_Witness ==
    /\ lastOp = "reset"
    /\ prev.sessionComplete
    /\ Truthy(prev.timeLimit)
    /\ prev.count # 0
    /\ state.soundEnabled
    /\ state.phaseTime = 6

\* C8 as stated: pause/stop and resetToStart both return isPlaying, count,
\* countdown, totalTime, timeLimit, timeLimitReached and sessionComplete to
\* their initial values and keep soundEnabled and phaseTime.
C8_StopAndResetRestoreInitialFields ==
    lastOp \in {"pause", "reset"} =>
        /\ state.isPlaying = InitialState.isPlaying
        /\ state.count = InitialState.count
        /\ state.countdown = InitialState.countdown
        /\ state.totalTime = InitialState.totalTime
        /\ state.timeLimit = InitialState.timeLimit
        /\ state.timeLimitReached = InitialState.timeLimitReached
        /\ state.sessionComplete = InitialState.sessionComplete
        /\ state.soundEnabled = prev.soundEnabled
        /\ state.phaseTime = prev.phaseTime

\* C8, amended: pause/stop and resetToStart both return isPlaying, count,
\* totalTime, timeLimitReached and sessionComplete to their initial values,
\* set countdown to the current phaseTime and keep soundEnabled and phaseTime;
\* resetToStart also clears timeLimit, pause/stop keeps it.
C8_StopAndResetRestoreSessionFields ==
    lastOp \in {"pause", "reset"} =>
        /\ state.isPlaying = InitialState.isPlaying
        /\ state.count = InitialState.count
        /\ state.countdown = state.phaseTime
        /\ state.totalTime = InitialState.totalTime
        /\ state.timeLimitReached = InitialState.timeLimitReached
        /\ state.sessionComplete = InitialState.sessionComplete
        /\ state.soundEnabled = prev.soundEnabled
        /\ state.phaseTime = prev.phaseTime
        /\ state.timeLimit =
              IF lastOp = "reset" THEN InitialState.timeLimit ELSE prev.timeLimit

C8_Witness ==
    /\ lastOp = "pause"
    /\ prev.isPlaying
    /\ prev.count = 2
    /\ prev.totalTime > 0
    /\ prev.timeLimitReached
    /\ Truthy(state.timeLimit)
    /\ state.phaseTime = 5
    /\ state.soundEnabled

\* C9: pausing a running session, at any tick count, leaves it Idle with
\* totalTime 0, count 0, countdown = phaseTime, timeLimitReached and
\* sessionComplete false and the tick source cancelled; the start that follows
\* begins at totalTime 0 and count 0 whatever the paused session had reached.
C9_PauseDiscardsProgress ==
    /\ lastOp = "pause" =>
          /\ prev.isPlaying
          /\ Idle
          /\ ~interval
          /\ state.totalTime = 0
          /\ state.count = 0
          /\ state.countdown = state.phaseTime
          /\ ~state.timeLimitReached
          /\ ~state.sessionComplete
    /\ lastOp \in {"start", "preset"} =>
          /\ ~prev.isPlaying
          /\ prev.totalTime = 0 /\ prev.count = 0
          /\ state.totalTime = 0 /\ state.count = 0

C9_Witness ==
    /\ lastOp = "pause"
    /\ prev.timeLimitReached
    /\ prev.count = 1
    /\ prev.countdown < prev.phaseTime
    /\ prev.countdown > 1
    /\ prev.totalTime > 60
    /\ Idle

\* C10: right after start() or startWithPreset(m) the session is Running with
\* totalTime 0, count 0, countdown equal to the configured phaseTime,
\* timeLimitReached and sessionComplete false and the tick source armed;
\* startWithPreset(m) leaves a time limit of m minutes, start() the limit it
\* found.
C10_StartInitialisesSession ==
    lastOp \in {"start", "preset"} =>
        /\ Running
        /\ interval
        /\ state.totalTime = 0
        /\ state.count = 0
        /\ state.phaseTime = prev.phaseTime
        /\ state.countdown = prev.phaseTime
        /\ ~state.timeLimitReached
        /\ ~state.sessionComplete
        /\ IF lastOp = "preset"
           THEN /\ HasLimit(state)
                /\ Len(lastArg) = 1
                /\ LimitMinutes(state) = lastArg[1]
                /\ state.timeLimit = SanitizeDigits(state.timeLimit)
           ELSE state.timeLimit = prev.timeLimit

C10_Witness ==
    /\ lastOp = "preset"
    /\ lastArg = <<10>>
    /\ Truthy(prev.timeLimit)
    /\ prev.timeLimit # state.timeLimit
    /\ prev.countdown # prev.phaseTime
    /\ state.countdown = 6
    /\ Running

\* C11: exactly one interval timer is armed while the session is Running and
\* none otherwise (every exit from Running disarms it), and every interval
\* callback that ran found a Running session: none changes a session field
\* between a stop or reset and the next start.
C11_TickSourceArmedWhileRunning ==
    /\ timers = IF state.isPlaying THEN 1 ELSE 0
    /\ interval <=> state.isPlaying
    /\ lastOp = "tick" => prev.isPlaying /\ ~prev.sessionComplete

C11_Witness ==
    /\ lastOp = "pause"
    /\ prev.totalTime > 0
    /\ timers = 0
    /\ ~interval
    /\ Idle

\* C12: after every interval callback, whichever branch it took, the control
\* fragment is the rendering of the current state: while Running it shows
\* formatTime(totalTime), the label of the current phase and the Pause
\* control; in Complete it shows "Complete!" and the reset control and no
\* toggle.
C12_TickRendersCurrentState ==
    lastOp = "tick" =>
        /\ view = render(state)
        /\ Running \/ Complete
        /\ Running =>
              /\ view.timer = formatTime(state.totalTime)
              /\ view.instruction = getInstruction(state.count)
              /\ view.toggle = "Pause"
              /\ ~view.reset /\ ~view.complete
        /\ Complete =>
              /\ view.complete
              /\ view.reset
              /\ view.toggle = "none"
              /\ view.timer = <<>>

C12_Witness ==
    /\ lastOp = "tick"
    /\ Complete
    /\ prev.isPlaying
    /\ view.complete
    /\ view.reset

\* C13: no handler that finds the session Running changes phaseTime or
\* timeLimit, and the handlers that set them (the time-limit input, the
\* slider, the presets) run only when the session is Idle.
C13_SettingsFrozenWhileRunning ==
    /\ (lastOp # "load" /\ prev.isPlaying) =>
          /\ state.phaseTime = prev.phaseTime
          /\ state.timeLimit = prev.timeLimit
    /\ lastOp \in {"limit", "slider", "preset"} => ~prev.isPlaying
    /\ (state.phaseTime # prev.phaseTime \/ state.timeLimit # prev.timeLimit) =>
          lastOp \in {"limit", "slider", "preset", "reset"}

C13_Witness ==
    /\ lastOp = "tick"
    /\ prev.isPlaying
    /\ Running
    /\ state.totalTime > 60
    /\ state.phaseTime = 5
    /\ state.timeLimit = <<"0", "1">>

\* C14: in the control fragment the reset control is present only in
\* Complete, and the sound toggle, the inputs and the presets only in Idle;
\* so resetToStart runs only from Complete, and toggleSound, the setters and
\* startWithPreset only from Idle.
C14_ControlsMatchState ==
    /\ view.reset => Complete
    /\ (view.settings \/ view.soundOn \/ view.slider \/ view.presets) => Idle
    /\ lastOp = "reset" => prev.sessionComplete
    /\ lastOp \in {"sound", "limit", "slider", "preset"} =>
          ~prev.isPlaying /\ ~prev.sessionComplete

C14_Witness ==
    /\ lastOp = "reset"
    /\ prev.sessionComplete
    /\ view.settings
    /\ view.slider
    /\ view.presets
    /\ ~view.reset

\* the last step was a session start or an interval callback that changed the
\* phase
ToneDue ==
    \/ lastOp \in {"start", "preset"}
    \/ lastOp = "tick" /\ state.count # prev.count

\* C15 as stated: a tone is emitted exactly at session start and on the ticks
\* that change the phase, if and only if soundEnabled is true then.
C15_ToneAtStartAndPhaseChange ==
    (tone = "played") <=> (ToneDue /\ state.soundEnabled)

\* C15, amended: playTone() synthesises a tone exactly at session start and on
\* the ticks that change the phase, and only if soundEnabled is true then; the
\* tone is emitted unless a Web Audio call throws; with soundEnabled false no
\* tone is synthesised at all.
C15_ToneSynthesisedAtStartAndPhaseChange ==
    /\ tone \in {"played", "failed"} <=> (ToneDue /\ state.soundEnabled)
    /\ ~state.soundEnabled => tone = "none"

C15_Witness ==
    /\ lastOp = "tick"
    /\ state.count # prev.count
    /\ state.soundEnabled
    /\ tone = "played"
    /\ Running

\* C16: audio is optional: whether or not the environment has an audio
\* context the loaded page offers Start and the presets, and a session whose
\* tone synthesis failed goes on exactly as the interval callback prescribes.
C16_AudioIsOptional ==
    /\ lastOp = "load" => view.toggle = "Start" /\ view.presets
    /\ (tone = "failed" /\ lastOp = "tick") =>
          state = tick(prev) /\ state.totalTime = prev.totalTime + 1

\* C17: toggleSound() changes soundEnabled and no other session field, and a
\* second toggleSound() gives back the state the first one found.
C17_ToggleSoundIsInvolution ==
    lastOp = "sound" =>
        /\ state.soundEnabled = ~prev.soundEnabled
        /\ [state EXCEPT !.soundEnabled = prev.soundEnabled] = prev
        /\ toggleSound(state) = prev

C17_Witness ==
    /\ lastOp = "sound"
    /\ prev.soundEnabled
    /\ ~state.soundEnabled
    /\ Truthy(state.timeLimit)
    /\ state.phaseTime = 3

\* the number of the three session states that hold
SessionStatesHolding ==
    Cardinality({ k \in {"Idle", "Running", "Complete"} :
                    \/ k = "Idle" /\ ~state.isPlaying /\ ~state.sessionComplete
                    \/ k = "Running" /\ state.isPlaying
                    \/ k = "Complete" /\ state.sessionComplete })

\* C18: exactly one of Idle, Running and Complete holds; isPlaying and
\* sessionComplete are never both true.
C18_ExactlyOneSessionState ==
    /\ SessionStatesHolding = 1
    /\ ~(state.isPlaying /\ state.sessionComplete)

C18_Witness ==
    /\ lastOp = "tick"
    /\ Complete
    /\ ~Running
    /\ prev.isPlaying

\* C19: every interval callback runs in a Running session and adds exactly 1
\* to totalTime, no other handler changes totalTime except to set it to 0
\* (start, pause, reset), so totalTime is the number of interval callbacks run
\* since the session started.
C19_TotalTimeCountsTicks ==
    /\ (Running \/ Complete) => state.totalTime = ticksRun
    /\ lastOp = "tick" =>
          prev.isPlaying /\ state.totalTime = prev.totalTime + 1
    /\ lastOp \in {"start", "preset", "pause", "reset"} => state.totalTime = 0
    /\ lastOp \in {"sound", "limit", "slider"} =>
          state.totalTime = prev.totalTime

C19_Witness ==
    /\ lastOp = "tick"
    /\ Running
    /\ ticksRun = 25
    /\ state.totalTime = 25
    /\ state.count # prev.count

\* C20: an interval callback leaves the phase as it is or moves it from i to
\* (i + 1) mod 4; the phase is always one of 0..3.
C20_PhaseStepsByOne ==
    /\ state.count \in 0..3
    /\ lastOp = "tick" =>
          state.count \in {prev.count, (prev.count + 1) % 4}

C20_Witness ==
    /\ lastOp = "tick"
    /\ prev.count = 3
    /\ state.count = 0
    /\ Running

\* the character of a digit 0..9
DigitChar(d) == DigitChars[d + 1]

\* C21: for every s in 0..5999 (the numbers of seconds below 100 minutes)
\* formatTime(s) is the two-digit zero-padded floor(s / 60), a colon and the
\* two-digit zero-padded s mod 60; formatTime(125) is "02:05" and
\* formatTime(59) is "00:59".
C21_FormatTimeIsPaddedMinutesSeconds ==
    lastOp = "formatted" =>
        LET s == lastArg[1]
            m == s \div 60
            r == s % 60
        IN  /\ m < 100 =>
                  view.timer = << DigitChar(m \div 10), DigitChar(m % 10), ":",
                                  DigitChar(r \div 10), DigitChar(r % 10) >>
            /\ s = 125 => view.timer = <<"0", "2", ":", "0", "5">>
            /\ s = 59 => view.timer = <<"0", "0", ":", "5", "9">>

C21_Witness ==
    /\ lastOp = "formatted"
    /\ lastArg = <<125>>
    /\ view.timer = <<"0", "2", ":", "0", "5">>

\* C22: sessionComplete is set only by a tick that also changes the phase:
\* the tick found countdown at 1, whether timeLimitReached was already true
\* (reached in the middle of a phase or at a boundary) or became true on that
\* very tick; a tick that finds another countdown never completes the session.
C22_CompletesOnlyAtPhaseChange ==
    /\ TickCompleted =>
          /\ prev.countdown = 1
          /\ state.count = (prev.count + 1) % 4
          /\ state.countdown = state.phaseTime
          /\ state.timeLimitReached
    /\ (lastOp = "tick" /\ prev.countdown # 1) =>
          /\ ~state.sessionComplete
          /\ state.count = prev.count
    /\ state.sessionComplete => lastOp = "tick" /\ prev.countdown = 1

\* the limit was reached by the tick that completed the session
C22_Witness ==
    /\ TickCompleted
    /\ ~prev.timeLimitReached
    /\ prev.countdown = 1
    /\ state.totalTime = 60

\* the limit was reached in the middle of a phase and the session went on
C22_WitnessMidPhase ==
    /\ lastOp = "tick"
    /\ ~prev.timeLimitReached
    /\ state.timeLimitReached
    /\ prev.countdown # 1
    /\ Running

\* C23: in the variant src/unnamed/part_000, too, the fragment after every
\* interval callback is the rendering of the state the callback left: after
\* the callback that sets sessionComplete it is the Complete view ("Complete!"
\* and the reset control, no toggle), and while Running the time shown is
\* formatTime(totalTime) after every tick.
C23_Part000TickRendersCurrentState ==
    lastOp = "tick" =>
        /\ state.sessionComplete =>
              /\ view.complete
              /\ view.reset
              /\ view.toggle = "none"
        /\ state.isPlaying => view.timer = formatTime(state.totalTime)
        /\ view = render(state)

\* C24: in src/app.js Complete is entered only by a tick of a Running
\* session and is left only by resetToStart, which leads to Idle: in Complete
\* no interval timer is armed and the fragment has neither the toggle nor the
\* presets nor the settings, so no session is ever started from Complete.
C24_CompleteIsTerminal ==
    /\ Complete =>
          /\ timers = 0
          /\ ~interval
          /\ view.toggle = "none"
          /\ ~view.presets
          /\ ~view.settings
          /\ ~view.slider
          /\ view.reset
          /\ lastOp = "tick"
          /\ prev.isPlaying
    /\ (lastOp # "load" /\ prev.sessionComplete) =>
          /\ lastOp = "reset"
          /\ Idle
    /\ lastOp \in {"start", "preset", "tick", "pause"} => ~prev.sessionComplete

C24_Witness ==
    /\ lastOp = "reset"
    /\ prev.sessionComplete
    /\ prev.count = 3
    /\ timers = 0
    /\ Idle

\* the frame loop runs for a Running session only: at most one frame callback
\* is pending, it is the one animationFrameId names, and none is pending
\* when the session is not Running
FrameLoopOnlyWhileRunning ==
    /\ frames <= 1
    /\ frames > 0 => state.isPlaying
    /\ animationFrameId <=> frames = 1
    /\ lastOp \in {"pause", "reset"} => frames = 0
    /\ TickCompleted => frames = 0

\* C25: in src/app.js an animation-frame callback is pending only while the
\* session is Running and at most one is pending at any time; pause, reset
\* and completion cancel it; and a frame callback changes no session field.
C25_FrameLoopActiveOnlyWhileRunning ==
    /\ []FrameLoopOnlyWhileRunning
    /\ [][AnimationFrame => state' = state]_vars

C25_Witness ==
    /\ lastOp = "pause"
    /\ prev.isPlaying
    /\ prev.totalTime > 0
    /\ frames = 0
    /\ ~animationFrameId

\* ticks run since the one that set timeLimitReached
TicksSinceLimit == ticksRun - reachedAt

\* a Running session whose limit is reached has run fewer than 4*phaseTime - 1
\* ticks since, and a session is completed at most that many ticks after
LimitBound ==
    /\ (Running /\ state.timeLimitReached) =>
          /\ reachedAt >= 1
          /\ TicksSinceLimit < 4 * state.phaseTime - 1
    /\ TickCompleted =>
          /\ reachedAt >= 1
          /\ TicksSinceLimit <= 4 * state.phaseTime - 1

\* C26: with the interval timer firing as long as it is armed and no stop by
\* the user, a Running session whose time limit is set becomes Complete, and
\* it does so at most 4*phaseTime - 1 ticks after the tick that set
\* timeLimitReached.
C26_LimitedSessionCompletes ==
    /\ []LimitBound
    /\ (Running /\ Truthy(state.timeLimit)) ~> Complete

C26_Witness ==
    /\ TickCompleted
    /\ Truthy(state.timeLimit)
    /\ reachedAt = 60
    /\ TicksSinceLimit = 3 * state.phaseTime
    /\ state.phaseTime = 5

\* C27: in every Running or Complete state the phase is
\* floor(totalTime / phaseTime) mod 4 and the countdown is
\* phaseTime - (totalTime mod phaseTime).
C27_PhaseDeterminedByElapsedTime ==
    (Running \/ Complete) =>
        /\ state.count = (state.totalTime \div state.phaseTime) % 4
        /\ state.countdown =
              state.phaseTime - (state.totalTime % state.phaseTime)

C27_Witness ==
    /\ Complete
    /\ state.phaseTime = 6
    /\ state.totalTime = 138
    /\ state.count = 3
    /\ state.countdown = 6

\* C28: after every tick of a Running session the countdown is between 1 and
\* phaseTime; it never reaches 0, so the tick that finds it at 1 always comes
\* and advances the phase: each phase lasts exactly phaseTime ticks.
C28_CountdownWithinPhase ==
    /\ Running =>
          /\ 1 <= state.countdown
          /\ state.countdown <= state.phaseTime
    /\ (lastOp = "tick" /\ prev.isPlaying) =>
          /\ prev.countdown >= 1
          /\ state.countdown >= 1
          /\ prev.countdown = 1 <=> state.count # prev.count
          /\ prev.countdown > 1 => state.countdown = prev.countdown - 1

C28_Witness ==
    /\ lastOp = "tick"
    /\ Running
    /\ prev.countdown = 2
    /\ state.countdown = 1
    /\ state.phaseTime = 3
    /\ state.count = 3

\* C29: at most one screen wake lock is held at any time, and every lock
\* held is the one the wakeLock handle refers to, whatever the interleaving
\* of start and stop clicks with the request and release promise callbacks.
C29_SingleTrackedWakeLock ==
    /\ Cardinality(held) <= 1
    /\ \A l \in held : l = wakeLock

====
